---- MODULE Spec2Model ----
(***************************************************************************)
(* CitationNetworkExplorer (src/CitationNetworkExplorer.py): the session   *)
(* object that pulls Scopus abstracts, keeps the list of pulled documents, *)
(* the citation graph, the authorship graph, the fail list and the         *)
(* session-wide target depth.  The Python call stack is explicit: one      *)
(* frame per active call of add_documents, pull_author and pull_abstract,  *)
(* and one action per step of their bodies.                                *)
(***************************************************************************)
EXTENDS Integers, Sequences, FiniteSets, TLC

VARIABLES
    documents,         \* self.documents: list of pulled abstracts
    fails,             \* self.fails: list of eids whose pull raised
    authorship_graph,  \* self.authorship_graph (nx.DiGraph)
    citation_graph,    \* self.citation_graph (nx.DiGraph)
    target_depth,      \* self.target_depth (any Python value)
    last_quota,        \* self.last_quota
    reset_time,        \* self.reset_time
    dicts,             \* the dict objects flags can refer to: address -> content
    stack,             \* the Python call stack, innermost frame last
    outcome,           \* how the last top-level call ended
    scopus,            \* the remote database (pybliometrics side)
    remote_log,        \* every remote retrieval made, in order
    ncalls,            \* number of top-level expansion calls made so far
    documents_is_default, \* self.documents is the documents=[] object of __init__
    default_documents, \* that object's content while self.documents is another list
    disk,              \* the files of CHECKPOINT_DIR: filename -> content
    last_call,         \* the last constructor, checkpoint or query call and its result
    nops               \* number of such calls made so far

\* What the expansion calls never touch.
env == <<documents_is_default, default_documents, disk, last_call, nops>>

vars == <<documents, fails, authorship_graph, citation_graph, target_depth,
          last_quota, reset_time, dicts, stack, outcome, scopus, remote_log,
          ncalls, env>>

(***************************************************************************)
(* Bounds of the model.                                                    *)
(***************************************************************************)
MaxCalls == 2
MaxFails == 1
MaxDepthArg == 2

(***************************************************************************)
(* Python values.  None and Some(x) model an attribute that is None or a   *)
(* value.  A value that may be an int, a bool or a dict (target_depth) is  *)
(* tagged with its type; a dict is held by its address in dicts.           *)
(***************************************************************************)
None == {}
Some(x) == {x}
The(opt) == CHOOSE x \in opt : TRUE

PyInt(n) == [t |-> "int", v |-> n]
PyFalse == [t |-> "bool", v |-> 0]
PyDict(ref) == [t |-> "dict", v |-> ref]

EmptyDict == [k \in {} |-> ""]

\* bool(x): the truth value Python gives x in a conditional expression.
Truthy(x, heap) ==
    IF x.t = "dict" THEN DOMAIN heap[x.v] # {} ELSE x.v # 0

\* int < x is defined for numbers only; it raises TypeError for a dict.
IsNumber(x) == x.t \in {"int", "bool"}

\* dict.update(new): the keys of new overwrite, the others stay.
DictUpdate(old, new) == new @@ old

(***************************************************************************)
(* The default-argument dict objects, one per def statement, created once  *)
(* when the class body is executed, and the first address a caller's own   *)
(* dict can get.                                                           *)
(***************************************************************************)
FlagsOfPullAbstract == 1
FlagsOfPullAuthor == 2
FlagsOfAddDocument == 3
FlagsOfAddDocuments == 4
DefaultDicts == {FlagsOfPullAbstract, FlagsOfPullAuthor, FlagsOfAddDocument,
                 FlagsOfAddDocuments}

\* The flags a caller passes when it passes some: a new dict {'initial': True}.
CallerFlags == ("initial" :> "True")

(***************************************************************************)
(* networkx.DiGraph: node -> data dict, and a set of directed edges.       *)
(***************************************************************************)
EmptyGraph == [node |-> [n \in {} |-> EmptyDict], edge |-> {}]

\* DiGraph.add_node(n, **attr): creates n, or updates the data of n.
add_node(g, n, attr) ==
    [g EXCEPT !.node =
        IF n \in DOMAIN g.node
        THEN [g.node EXCEPT ![n] = DictUpdate(g.node[n], attr)]
        ELSE (n :> attr) @@ g.node]

\* DiGraph.add_edge(u, v): creates the missing end nodes with no data and
\* leaves the data of existing nodes alone.
add_edge(g, u, v) ==
    LET g1 == IF u \in DOMAIN g.node THEN g ELSE add_node(g, u, EmptyDict)
        g2 == IF v \in DOMAIN g1.node THEN g1 ELSE add_node(g1, v, EmptyDict)
    IN [g2 EXCEPT !.edge = g2.edge \cup {<<u, v>>}]

in_degree(g, n) == Cardinality({e \in g.edge : e[2] = n})

(***************************************************************************)
(* Identifiers.                                                            *)
(***************************************************************************)
eid_prefix == "2-s2.0-"
eid_from_id(thisid) == eid_prefix \o thisid

min_indegree_to_pull == 3

(***************************************************************************)
(* The remote database: what AbstractRetrieval(eid) and                    *)
(* AuthorRetrieval(auid).get_document_eids() return when they succeed.     *)
(***************************************************************************)
Ref(id) == [id |-> id]
Author(auid, name) == [auid |-> auid, indexed_name |-> name]
Abstract(id, year, refs, authors) ==
    [eid |-> eid_from_id(id), coverDate |-> <<year, "01", "01">>,
     references |-> refs, authors |-> authors]

\* Three documents a, b, c cite r; a and b cite s; r cites s; s cites r and
\* itself; c has no author list.
Library ==
    LET u1 == Author("u1", "One U.")
        u2 == Author("u2", "Two U.")
        recs == {
          Abstract("a", "2001", Some(<<Ref("r"), Ref("s")>>), Some(<<u1>>)),
          Abstract("b", "2002", Some(<<Ref("r"), Ref("s")>>), Some(<<u1, u2>>)),
          Abstract("c", "2003", Some(<<Ref("r")>>), None),
          Abstract("r", "1990", Some(<<Ref("s")>>), Some(<<u2>>)),
          Abstract("s", "1980", Some(<<Ref("r"), Ref("s")>>), None) }
    IN [abstracts |-> [e \in {x.eid : x \in recs} |->
                          CHOOSE x \in recs : x.eid = e],
        authors |-> ("u1" :> <<eid_from_id("a"), eid_from_id("b")>>)
                 @@ ("u2" :> <<eid_from_id("b"), eid_from_id("r")>>)]

\* The seed A1 and three documents B1, B2, B3 all cite r1, r2, r3, r4.
SeedLibrary ==
    LET u1 == Author("u1", "One U.")
        four == Some(<<Ref("r1"), Ref("r2"), Ref("r3"), Ref("r4")>>)
        recs == {
          Abstract("A1", "2010", four, Some(<<u1>>)),
          Abstract("B1", "2005", four, Some(<<u1>>)),
          Abstract("B2", "2006", four, None),
          Abstract("B3", "2007", four, None),
          Abstract("r1", "1991", Some(<<Ref("r2")>>), None),
          Abstract("r2", "1992", None, None),
          Abstract("r3", "1993", Some(<< >>), None),
          Abstract("r4", "1994", Some(<<Ref("A1")>>), None) }
    IN [abstracts |-> [e \in {x.eid : x \in recs} |->
                          CHOOSE x \in recs : x.eid = e],
        authors |-> ("u1" :> <<eid_from_id("A1"), eid_from_id("B1")>>)]

KeyQuota == 20000
ResetTime == "2026-11-12T00:00:00"

\* The quota headers the remote sends with its n-th answer.
QuotaAfter(n) == ToString(KeyQuota - n)

(***************************************************************************)
(* Call frames.                                                            *)
(***************************************************************************)
Frame(fn, eid, eidlist, depth, flags, td) ==
    [fn |-> fn, eid |-> eid, eidlist |-> eidlist, i |-> 1, depth |-> depth,
     flags |-> flags, td |-> td, abstract |-> None, intry |-> FALSE,
     pc |-> "start"]

Top == stack[Len(stack)]
Pop(stk) == SubSeq(stk, 1, Len(stk) - 1)
Running(fn) == stack # <<>> /\ Top.fn = fn

SetTop(stk, f) == [stk EXCEPT ![Len(stk)] = f]

\* is_repeat with the scan cut after the first document.
is_repeat_first_only(docs, eid) ==
    LET hits == {k \in 1..Len(docs) : k = 1 /\ docs[k].eid = eid}
    IN [answer |-> hits # {},
        match |-> IF hits = {} THEN None ELSE Some(docs[1])]

\* is_repeat(eid): scans self.documents; the last document with that eid wins.
is_repeat(docs, eid) ==
    LET hits == {k \in 1..Len(docs) : docs[k].eid = eid}
    IN [answer |-> hits # {},
        match |-> IF hits = {} THEN None
                  ELSE Some(docs[CHOOSE k \in hits : \A j \in hits : j <= k])]

\* The gate with the in-degree test written > instead of >=.
ShouldPull_strict(g, reference_eid, depth, td) ==
    /\ depth < td.v
    /\ in_degree(g, reference_eid) > min_indegree_to_pull

\* The gate with the depth of the reference, not of the document, tested.
ShouldPull_child_depth(g, reference_eid, depth, td) ==
    /\ depth + 1 < td.v
    /\ in_degree(g, reference_eid) >= min_indegree_to_pull

\* The gate with the depth test written <= instead of <.
ShouldPull_inclusive(g, reference_eid, depth, td) ==
    /\ depth <= td.v
    /\ in_degree(g, reference_eid) >= min_indegree_to_pull

\* The two conditions of pull_references under which the reference is pulled,
\* evaluated on the graph that already holds the new edge (td is a number).
ShouldPull(g, reference_eid, depth, td) ==
    /\ depth < td.v
    /\ in_degree(g, reference_eid) >= min_indegree_to_pull

\* Unwinding when pull_abstract's handler records the eid and raises again.
Unwind_reraise(stk, fls) ==
    [stack |-> <<>>, fails |-> Append(fls, stk[Len(stk)].eid),
     escaped |-> TRUE]

\* An exception leaving the innermost frame of stk: it unwinds the frames up
\* to the nearest enclosing try.  pull_abstract's handler appends its eid to
\* self.fails and returns; pull_author's handler only prints; add_documents
\* and the already-pulled branch of pull_abstract have none.
RECURSIVE Unwind(_, _)
Unwind(stk, fls) ==
    IF stk = <<>>
    THEN [stack |-> <<>>, fails |-> fls, escaped |-> TRUE]
    ELSE LET f == stk[Len(stk)]
         IN IF f.fn = "pull_abstract" /\ f.intry
            THEN [stack |-> Pop(stk), fails |-> Append(fls, f.eid),
                  escaped |-> FALSE]
            ELSE IF f.fn = "pull_author"
            THEN [stack |-> Pop(stk), fails |-> fls, escaped |-> FALSE]
            ELSE Unwind(Pop(stk), fls)

\* How a top-level call that has left the stack stk ended.
Ended(stk, escaped, old) ==
    IF escaped THEN "raised" ELSE IF stk = <<>> THEN "returned" ELSE old

FailsSoFar == Cardinality({k \in 1..Len(remote_log) : ~remote_log[k].ok})
CanFail == FailsSoFar < MaxFails

Logged(kind, id, ok) ==
    Append(remote_log,
           [kind |-> kind, id |-> id, ok |-> ok,
            remaining |-> IF ok THEN QuotaAfter(Len(remote_log) + 1) ELSE "",
            reset |-> IF ok THEN ResetTime ELSE ""])

(***************************************************************************)
(* Inputs of the top-level calls.                                          *)
(***************************************************************************)
\* add_document is called on a and on r, add_documents on the batch a, b, c,
\* pull_author on u1; target_depth is left out (False) or 0..MaxDepthArg;
\* flags is left out or is a new dict of the caller's.
SeedEids == {eid_from_id("a"), eid_from_id("r")}
EidLists == {<<eid_from_id("a"), eid_from_id("b"), eid_from_id("c")>>}
Auids == {"u1"}
DepthArgs == {PyFalse} \cup {PyInt(n) : n \in 0..MaxDepthArg}
FlagArgs == {"default", "given"}

\* The dict a flags argument is bound to: the function's default object when
\* the caller passes none, a new dict of the caller's otherwise.
NewDict == (CHOOSE d \in DOMAIN dicts : \A x \in DOMAIN dicts : x <= d) + 1
FlagsArg(fl, default) == IF fl = "default" THEN default ELSE NewDict
DictsWith(fl) ==
    IF fl = "default" THEN dicts ELSE (NewDict :> CallerFlags) @@ dicts

CanCall == stack = <<>> /\ ncalls < MaxCalls

\* The assignment written self.target_depth = target_depth.
NewTargetDepth_always(td, heap) == td

(***************************************************************************)
(* add_documents(eidlist, target_depth, flags): the statements before the  *)
(* loop.  The new value of self.target_depth.                              *)
(***************************************************************************)
NewTargetDepth(td, heap) == IF Truthy(td, heap) THEN td ELSE target_depth

(***************************************************************************)
(* Top-level calls.                                                        *)
(***************************************************************************)
\* add_document(eid, flags=...): calls pull_abstract(eid, 0, report, flags).
AddDocument(eid, fl) ==
    /\ UNCHANGED env
    /\ CanCall
    /\ ncalls' = ncalls + 1
    /\ dicts' = DictsWith(fl)
    /\ stack' = <<Frame("pull_abstract", eid, <<>>, 0,
                        FlagsArg(fl, FlagsOfAddDocument), PyFalse)>>
    /\ outcome' = "running"
    /\ UNCHANGED <<documents, fails, authorship_graph, citation_graph,
                   target_depth, last_quota, reset_time, scopus, remote_log>>

\* add_documents(eidlist, target_depth, flags=...), up to the loop; eidlist is
\* a list (a str would be wrapped into a list of one).
AddDocuments(eidlist, td, fl) ==
    /\ UNCHANGED env
    /\ CanCall
    /\ ncalls' = ncalls + 1
    /\ dicts' = DictsWith(fl)
    /\ target_depth' = NewTargetDepth(td, dicts')
    /\ stack' = <<Frame("add_documents", "", eidlist, 0,
                        FlagsArg(fl, FlagsOfAddDocuments), td)>>
    /\ outcome' = "running"
    /\ UNCHANGED <<documents, fails, authorship_graph, citation_graph,
                   last_quota, reset_time, scopus, remote_log>>

\* pull_author(auid, flags=...): AuthorRetrieval, then
\* self.add_documents(newdocs, flags): flags is bound to target_depth, and
\* add_documents' own flags is its default dict.
PullAuthor(auid, fl, ok) ==
    /\ UNCHANGED env
    /\ CanCall
    /\ ok \/ CanFail
    /\ ncalls' = ncalls + 1
    /\ dicts' = DictsWith(fl)
    /\ remote_log' = Logged("author", auid, ok)
    /\ IF ok
       THEN LET td == PyDict(FlagsArg(fl, FlagsOfPullAuthor))
            IN /\ target_depth' = NewTargetDepth(td, dicts')
               /\ stack' = <<Frame("pull_author", auid, <<>>, 0,
                                   FlagsArg(fl, FlagsOfPullAuthor), PyFalse),
                             Frame("add_documents", "", scopus.authors[auid],
                                   0, FlagsOfAddDocuments, td)>>
               /\ outcome' = "running"
       ELSE /\ UNCHANGED <<target_depth, stack>>
            /\ outcome' = "returned"
    /\ UNCHANGED <<documents, fails, authorship_graph, citation_graph,
                   last_quota, reset_time, scopus>>

(***************************************************************************)
(* Steps of the running call.                                              *)
(***************************************************************************)
\* One iteration of the loop of add_documents: add_document(eid,
\* report=False, flags=flags); or the end of the loop.
AddDocumentsLoop ==
    /\ UNCHANGED env
    /\ Running("add_documents")
    /\ IF Top.i <= Len(Top.eidlist)
       THEN /\ stack' = Append(SetTop(stack, [Top EXCEPT !.i = @ + 1]),
                               Frame("pull_abstract", Top.eidlist[Top.i],
                                     <<>>, 0, Top.flags, PyFalse))
            /\ UNCHANGED outcome
       ELSE /\ stack' = Pop(stack)
            /\ outcome' = Ended(stack', FALSE, outcome)
    /\ UNCHANGED <<documents, fails, authorship_graph, citation_graph,
                   target_depth, last_quota, reset_time, dicts, scopus,
                   remote_log, ncalls>>

\* pull_author after add_documents has returned: nothing is left to do.
PullAuthorReturn ==
    /\ UNCHANGED env
    /\ Running("pull_author")
    /\ stack' = Pop(stack)
    /\ outcome' = Ended(stack', FALSE, outcome)
    /\ UNCHANGED <<documents, fails, authorship_graph, citation_graph,
                   target_depth, last_quota, reset_time, dicts, scopus,
                   remote_log, ncalls>>

\* pull_abstract, the eid has been pulled before: pull_references(match).
PullAbstractRepeat ==
    /\ UNCHANGED env
    /\ Running("pull_abstract") /\ Top.pc = "start"
    /\ is_repeat(documents, Top.eid).answer
    /\ stack' = SetTop(stack, [Top EXCEPT
                    !.abstract = is_repeat(documents, Top.eid).match,
                    !.pc = "refs"])
    /\ UNCHANGED <<documents, fails, authorship_graph, citation_graph,
                   target_depth, last_quota, reset_time, dicts, outcome,
                   scopus, remote_log, ncalls>>

\* The authorship graph after the authors of abstract have been added.
RECURSIVE AddAuthors(_, _, _)
AddAuthors(g, eid, authors) ==
    IF authors = <<>> THEN g
    ELSE LET author == Head(authors)
             g1 == add_node(g, author.auid,
                            [bipartite |-> 1, name |-> author.indexed_name])
         IN AddAuthors(add_edge(g1, eid, author.auid), eid, Tail(authors))

WithAuthors(g, abstract) ==
    IF abstract.authors = None THEN g
    ELSE AddAuthors(add_node(g, abstract.eid, [bipartite |-> 0]),
                    abstract.eid, The(abstract.authors))

\* flags.update(year = abstract.coverDate[:4]): the dict flags refers to is
\* changed in place.
FlagsUpdated(heap, flags, abstract) ==
    [heap EXCEPT ![flags] = DictUpdate(@, [year |-> abstract.coverDate[1]])]

\* self.citation_graph.add_node(abstract.eid, attr=flags): the node's data
\* gets the key 'attr', bound to the dict object itself.
NodeAdded(g, abstract, flags) == add_node(g, abstract.eid, [attr |-> flags])

\* pull_abstract, the eid is new and AbstractRetrieval succeeds: the body of
\* the try block up to the call of pull_references.  The remote answers with
\* the abstract of the eid it was asked for (abstract.eid = eid).
PullAbstractFetch ==
    /\ UNCHANGED env
    /\ Running("pull_abstract") /\ Top.pc = "start"
    /\ ~is_repeat(documents, Top.eid).answer
    /\ Top.eid \in DOMAIN scopus.abstracts
    /\ LET abstract == scopus.abstracts[Top.eid]
       IN /\ remote_log' = Logged("abstract", Top.eid, TRUE)
          /\ last_quota' = remote_log'[Len(remote_log')].remaining
          /\ reset_time' = remote_log'[Len(remote_log')].reset
          /\ documents' = Append(documents, abstract)
          /\ dicts' = FlagsUpdated(dicts, Top.flags, abstract)
          /\ citation_graph' = NodeAdded(citation_graph, abstract, Top.flags)
          /\ authorship_graph' = WithAuthors(authorship_graph, abstract)
          /\ stack' = SetTop(stack, [Top EXCEPT !.abstract = Some(abstract),
                                                !.intry = TRUE,
                                                !.pc = "refs"])
    /\ UNCHANGED <<fails, target_depth, outcome, scopus, ncalls>>

\* A failed pull that has already registered the node of the eid.
FailedPull_stub ==
    /\ citation_graph' = add_node(citation_graph, Top.eid, EmptyDict)
    /\ UNCHANGED <<documents, authorship_graph, target_depth, last_quota,
                   reset_time, dicts>>

\* A failed pull that resets the quota fields to unknown.
FailedPull_forgets_quota ==
    /\ last_quota' = ""
    /\ reset_time' = ""
    /\ UNCHANGED <<documents, authorship_graph, citation_graph, target_depth,
                   dicts>>

\* AbstractRetrieval(eid) raises before any statement of the try block has
\* assigned anything: what the failed call leaves as it was.
FailedPull ==
    UNCHANGED <<documents, authorship_graph, citation_graph, target_depth,
                last_quota, reset_time, dicts>>

\* pull_abstract, the eid is new and AbstractRetrieval raises inside the try.
PullAbstractFail ==
    /\ UNCHANGED env
    /\ Running("pull_abstract") /\ Top.pc = "start"
    /\ ~is_repeat(documents, Top.eid).answer
    /\ CanFail \/ Top.eid \notin DOMAIN scopus.abstracts
    /\ remote_log' = Logged("abstract", Top.eid, FALSE)
    /\ FailedPull
    /\ LET u == Unwind(SetTop(stack, [Top EXCEPT !.intry = TRUE]), fails)
       IN /\ stack' = u.stack
          /\ fails' = u.fails
          /\ outcome' = Ended(u.stack, u.escaped, outcome)
    /\ UNCHANGED <<scopus, ncalls>>

\* Whether pull_references has a reference left to handle.
HasReference(f) ==
    /\ The(f.abstract).references # None
    /\ f.i <= Len(The(The(f.abstract).references))

\* One iteration of the loop of pull_references.
PullReferences ==
    /\ UNCHANGED env
    /\ Running("pull_abstract") /\ Top.pc = "refs"
    /\ HasReference(Top)
    /\ LET abstract == The(Top.abstract)
           reference == The(abstract.references)[Top.i]
           reference_eid == eid_from_id(reference.id)
           g == add_edge(citation_graph, abstract.eid, reference_eid)
           next == SetTop(stack, [Top EXCEPT !.i = @ + 1])
       IN /\ citation_graph' = g
          /\ IF ~IsNumber(target_depth)
             THEN \* depth < self.target_depth raises TypeError
                  LET u == Unwind(stack, fails)
                  IN /\ stack' = u.stack
                     /\ fails' = u.fails
                     /\ outcome' = Ended(u.stack, u.escaped, outcome)
             ELSE /\ stack' =
                        IF ShouldPull(g, reference_eid, Top.depth, target_depth)
                        THEN Append(next,
                                    Frame("pull_abstract", reference_eid, <<>>,
                                          Top.depth + 1, FlagsOfPullAbstract,
                                          PyFalse))
                        ELSE next
                  /\ UNCHANGED <<fails, outcome>>
    /\ UNCHANGED <<documents, authorship_graph, target_depth, last_quota,
                   reset_time, dicts, scopus, remote_log, ncalls>>

\* pull_references has handled every reference: pull_abstract returns.
PullAbstractReturn ==
    /\ UNCHANGED env
    /\ Running("pull_abstract") /\ Top.pc = "refs"
    /\ ~HasReference(Top)
    /\ stack' = Pop(stack)
    /\ outcome' = Ended(stack', FALSE, outcome)
    /\ UNCHANGED <<documents, fails, authorship_graph, citation_graph,
                   target_depth, last_quota, reset_time, dicts, scopus,
                   remote_log, ncalls>>

(***************************************************************************)
(* Checkpoints.  A file of CHECKPOINT_DIR holds what pickle.dump wrote: the *)
(* dict of the saved structures, with the dict objects the citation graph   *)
(* refers to copied by value (objects); or bytes pickle.load cannot read.   *)
(***************************************************************************)
MaxOps == 3

CHECKPOINT_FILENAME_BASE == "CiteNetXCheckpoints"

\* datetime.now().strftime("%Y%m%d.%H%M") at the time of the call.
Now == "20261105.1200"

\* The name of the checkpoint file of a key.
Filename(key) == CHECKPOINT_FILENAME_BASE \o key \o ".pickle"

\* The key save_checkpoint uses: the one given, or the timestamp.
KeyOrTimestamp(key) == IF key = None THEN Now ELSE The(key)

Unreadable == [kind |-> "unreadable"]

\* The dict objects the node data of g refer to.
Referenced(g) ==
    {g.node[n].attr : n \in {m \in DOMAIN g.node : "attr" \in DOMAIN g.node[m]}}

\* pickle.dump(save_content, file): every object reachable from save_content
\* is written by value, an object reached twice is written once.
Pickled(save_content, heap) ==
    [kind |-> "pickle", content |-> save_content,
     objects |-> [d \in Referenced(save_content.citations) |-> heap[d]]]

\* dict(documents=..., authorship=..., citations=...) of save_checkpoint.
SaveContent ==
    [documents |-> documents, authorship |-> authorship_graph,
     citations |-> citation_graph]

MaxAddress(heap) == CHOOSE d \in DOMAIN heap : \A x \in DOMAIN heap : x <= d

\* g with every dict it refers to moved by offset.
Relocated(g, offset) ==
    [g EXCEPT !.node =
        [n \in DOMAIN g.node |->
            IF "attr" \in DOMAIN g.node[n]
            THEN [g.node[n] EXCEPT !.attr = @ + offset]
            ELSE g.node[n]]]

\* Unpickling that hands back the dict objects that were saved, not copies.
Unpickled_same_objects(file, heap) ==
    [content |-> file.content, heap |-> heap]

\* pickle.load(f): every object of the file is created anew, at an address
\* no live object has; sharing inside the file is kept.
Unpickled(file, heap) ==
    LET offset == MaxAddress(heap)
    IN [content |->
           [k \in DOMAIN file.content |->
               IF k = "citations" THEN Relocated(file.content[k], offset)
               ELSE file.content[k]],
        heap |-> [d \in {x + offset : x \in DOMAIN file.objects} |->
                     file.objects[d - offset]] @@ heap]

\* The number of assignments of load_checkpoint's try block that run before
\* content[...] raises KeyError: the three keys are read in this order.
RECURSIVE Assigned(_, _)
Assigned(content, keys) ==
    IF keys = <<>> \/ Head(keys) \notin DOMAIN content THEN 0
    ELSE 1 + Assigned(content, Tail(keys))

LoadOrder == <<"documents", "authorship", "citations">>

\* The content of the documents=[] object of __init__.
DefaultDocuments ==
    IF documents_is_default THEN documents ELSE default_documents

CanOperate == stack = <<>> /\ nops < MaxOps

Called(fn, arg, result) ==
    [n |-> nops + 1, fn |-> fn, arg |-> arg, result |-> result]

\* CitationNetworkExplorer(): a new session object takes the place of the
\* old one; documents is bound to the default list of __init__.
NewSession ==
    /\ CanOperate
    /\ nops' = nops + 1
    /\ documents' = DefaultDocuments
    /\ documents_is_default' = TRUE
    /\ default_documents' = <<>>
    /\ fails' = <<>>
    /\ authorship_graph' = EmptyGraph
    /\ citation_graph' = EmptyGraph
    /\ target_depth' = PyInt(0)
    /\ last_quota' = ""
    /\ reset_time' = ""
    /\ outcome' = "returned"
    /\ last_call' = Called("__init__", None, "")
    /\ UNCHANGED <<dicts, stack, scopus, remote_log, ncalls, disk>>

\* save_checkpoint(key).  io: everything works; mkdir raises; or the file is
\* opened for writing and pickle.dump raises.  Nothing catches either.
SaveCheckpoint(key, io) ==
    /\ CanOperate
    /\ nops' = nops + 1
    /\ LET filename == Filename(KeyOrTimestamp(key))
       IN disk' =
             IF io = "ok"
             THEN (filename :> Pickled(SaveContent, dicts)) @@ disk
             ELSE IF io = "dump raises"
             THEN (filename :> Unreadable) @@ disk
             ELSE disk
    /\ outcome' = IF io = "ok" THEN "returned" ELSE "raised"
    /\ last_call' = Called("save_checkpoint", key, io)
    /\ UNCHANGED <<documents, fails, authorship_graph, citation_graph,
                   target_depth, last_quota, reset_time, dicts, stack, scopus,
                   remote_log, ncalls, documents_is_default,
                   default_documents>>

\* load_checkpoint(key).  Without a key it only prints.  open or pickle.load
\* may raise; then the three assignments run in order, and a missing key
\* raises KeyError after the assignments before it.  The except clause
\* prints and returns.
LoadCheckpoint(key) ==
    /\ CanOperate
    /\ nops' = nops + 1
    /\ outcome' = "returned"
    /\ IF key = None
       THEN /\ last_call' = Called("load_checkpoint", key, "no key")
            /\ UNCHANGED <<documents, authorship_graph, citation_graph, dicts,
                           documents_is_default, default_documents>>
       ELSE IF \/ Filename(The(key)) \notin DOMAIN disk
               \/ disk[Filename(The(key))].kind # "pickle"
       THEN /\ last_call' = Called("load_checkpoint", key, "failed")
            /\ UNCHANGED <<documents, authorship_graph, citation_graph, dicts,
                           documents_is_default, default_documents>>
       ELSE LET u == Unpickled(disk[Filename(The(key))], dicts)
                n == Assigned(u.content, LoadOrder)
            IN /\ documents' =
                     IF n >= 1 THEN u.content["documents"] ELSE documents
               /\ documents_is_default' =
                     IF n >= 1 THEN FALSE ELSE documents_is_default
               /\ default_documents' =
                     IF n >= 1 THEN DefaultDocuments ELSE default_documents
               /\ authorship_graph' =
                     IF n >= 2 THEN u.content["authorship"]
                     ELSE authorship_graph
               /\ citation_graph' =
                     IF n >= 3 THEN u.content["citations"]
                     ELSE citation_graph
               /\ dicts' = u.heap
               /\ last_call' =
                     Called("load_checkpoint", key,
                            IF n = Len(LoadOrder) THEN "loaded" ELSE "failed")
    /\ UNCHANGED <<fails, target_depth, last_quota, reset_time, stack, scopus,
                   remote_log, ncalls, disk>>

(***************************************************************************)
(* Queries: quotas() and distance_from_initial_sample(node_id).            *)
(***************************************************************************)
\* The str values of the model stand for Python objects; this one stands
\* for None, which no assignment of the class gives to either quota field.
PyNone == "None"
is_not_None(x) == x # PyNone

\* The strings datetime.fromisoformat parses; it raises ValueError on ''.
IsoFormat == {ResetTime}

\* str(end - start) for the reset time the remote reports.
TimeLeft == "6 days, 12:00:00"

\* quotas(): the two strings it prints, or None when fromisoformat raises.
quotas ==
    IF is_not_None(reset_time) /\ reset_time \notin IsoFormat THEN None
    ELSE Some(
      [reset_string |->
          IF is_not_None(reset_time)
          THEN "key resets on " \o reset_time \o " (" \o TimeLeft \o ")"
          ELSE "Reset Time Unknown",
       quota_string |->
          IF is_not_None(last_quota)
          THEN "remaining pulls this key: " \o last_quota \o "."
          ELSE "Pulls Remaining Unknown"])

\* get_nodes_with_attribute(graph, attribute, value): the nodes whose data
\* dict has the key attribute, bound to value.
get_nodes_with_attribute(g, attribute, value) ==
    {n \in DOMAIN g.node :
        attribute \in DOMAIN g.node[n] /\ g.node[n][attribute] = value}

\* to_undirected: the nodes one edge away from a node of S, and S.
Neighbours(g, S) ==
    S \cup {e[2] : e \in {x \in g.edge : x[1] \in S}}
      \cup {e[1] : e \in {x \in g.edge : x[2] \in S}}

RECURSIVE Within(_, _, _)
Within(g, source, k) ==
    IF k = 0 THEN {source} ELSE Neighbours(g, Within(g, source, k - 1))

Least(S) == CHOOSE x \in S : \A y \in S : x <= y
Greatest(S) == CHOOSE x \in S : \A y \in S : y <= x

\* nx.shortest_path_length(undirected_view, source, target), or None when
\* it raises (a node that is not in the graph, or no path).
shortest_path_length(g, source, target) ==
    LET ks == {k \in 0..Cardinality(DOMAIN g.node) :
                  target \in Within(g, source, k)}
    IN IF source \notin DOMAIN g.node \/ target \notin DOMAIN g.node
          \/ ks = {}
       THEN None ELSE Some(Least(ks))

\* nx.diameter(undirected_view), or None when it raises (no node, or a
\* graph that is not connected).
diameter(g) ==
    LET lengths == {shortest_path_length(g, u, v) :
                       u \in DOMAIN g.node, v \in DOMAIN g.node}
    IN IF lengths = {} \/ None \in lengths THEN None
       ELSE Some(Greatest({The(l) : l \in lengths}))

\* distance_from_initial_sample(node_id): the int it returns, or None when
\* it raises.
distance_from_initial_sample(g, node_id) ==
    LET initial_node_ids == get_nodes_with_attribute(g, "initial", "True")
        distance == diameter(g)
        these == {shortest_path_length(g, initial_node_id, node_id) :
                     initial_node_id \in initial_node_ids}
    IN IF distance = None \/ None \in these THEN None
       ELSE Some(Least({The(distance)} \cup {The(d) : d \in these}))

\* A call of quotas().
Quotas ==
    /\ CanOperate
    /\ nops' = nops + 1
    /\ outcome' = IF quotas = None THEN "raised" ELSE "returned"
    /\ last_call' = Called("quotas", None, quotas)
    /\ UNCHANGED <<documents, fails, authorship_graph, citation_graph,
                   target_depth, last_quota, reset_time, dicts, stack, scopus,
                   remote_log, ncalls, documents_is_default,
                   default_documents, disk>>

\* A call of distance_from_initial_sample(node_id).
Distance(node_id) ==
    /\ CanOperate
    /\ nops' = nops + 1
    /\ LET distance == distance_from_initial_sample(citation_graph, node_id)
       IN /\ outcome' = IF distance = None THEN "raised" ELSE "returned"
          /\ last_call' = Called("distance_from_initial_sample", node_id,
                                 distance)
    /\ UNCHANGED <<documents, fails, authorship_graph, citation_graph,
                   target_depth, last_quota, reset_time, dicts, stack, scopus,
                   remote_log, ncalls, documents_is_default,
                   default_documents, disk>>

(***************************************************************************)
(* The session after __init__, and the specification.                      *)
(***************************************************************************)
Fresh ==
    /\ documents = <<>>
    /\ fails = <<>>
    /\ authorship_graph = EmptyGraph
    /\ citation_graph = EmptyGraph
    /\ target_depth = PyInt(0)
    /\ last_quota = ""
    /\ reset_time = ""
    /\ dicts = [d \in DefaultDicts |-> EmptyDict]
    /\ stack = <<>>
    /\ outcome = "idle"
    /\ remote_log = <<>>
    /\ ncalls = 0
    /\ documents_is_default = TRUE
    /\ default_documents = <<>>
    /\ last_call = [n |-> 0, fn |-> "", arg |-> None, result |-> ""]
    /\ nops = 0

\* A checkpoint directory with no file in it.
NoFiles == [f \in {} |-> Unreadable]

Init == Fresh /\ scopus = Library /\ disk = NoFiles

Call ==
    \/ \E eid \in SeedEids, fl \in FlagArgs : AddDocument(eid, fl)
    \/ \E eidlist \in EidLists, td \in DepthArgs, fl \in FlagArgs :
          AddDocuments(eidlist, td, fl)
    \/ \E auid \in Auids, fl \in FlagArgs, ok \in BOOLEAN :
          PullAuthor(auid, fl, ok)

Step ==
    \/ AddDocumentsLoop
    \/ PullAuthorReturn
    \/ PullAbstractRepeat
    \/ PullAbstractFetch
    \/ PullAbstractFail
    \/ PullReferences
    \/ PullAbstractReturn

Next == Call \/ Step

Spec == Init /\ [][Next]_vars

(***************************************************************************)
(* The session of the seed scenario: B1, B2, B3 are added first, then the  *)
(* seed A1 with target depth 1.                                            *)
(***************************************************************************)
SeedInit == Fresh /\ scopus = SeedLibrary /\ disk = NoFiles

SeedCall ==
    \/ /\ ncalls = 0
       /\ \E td \in {PyFalse, PyInt(1)}, fl \in FlagArgs :
             AddDocuments(<<eid_from_id("B1"), eid_from_id("B2"),
                            eid_from_id("B3")>>, td, fl)
    \/ /\ ncalls = 1
       /\ \E fl \in FlagArgs :
             AddDocuments(<<eid_from_id("A1")>>, PyInt(1), fl)

SeedStep ==
    \/ AddDocumentsLoop
    \/ PullAbstractRepeat
    \/ PullAbstractFetch
    \/ PullAbstractFail
    \/ PullReferences
    \/ PullAbstractReturn

SeedNext == SeedCall \/ SeedStep

SeedSpec == SeedInit /\ [][SeedNext]_vars

LiveSpec == Spec /\ WF_vars(Step)

(***************************************************************************)
(* A session with checkpoints: documents are added with the default flags, *)
(* one by one or, as the first call, in a batch with target depth 1; the   *)
(* session is saved and loaded, and new sessions are constructed in the    *)
(* same process.  The checkpoint directory already holds a file that       *)
(* cannot be read and a file whose dict has no 'citations'.                *)
(***************************************************************************)
FoundFiles ==
    LET b == Library.abstracts[eid_from_id("b")]
    IN (Filename("broken") :> Unreadable)
       @@ (Filename("partial") :>
              [kind |-> "pickle",
               content |-> [documents |-> <<b>>,
                            authorship |-> WithAuthors(EmptyGraph, b)],
               objects |-> [d \in {} |-> EmptyDict]])

SaveKeys == {Some("k")}
LoadKeys == {None, Some("k"), Some("broken"), Some("partial")}
\* save_checkpoint works, or pickle.dump raises on the opened file (a mkdir
\* that raises leaves the same session and no file).
SaveOutcomes == {"ok", "dump raises"}

CheckpointInit == Fresh /\ scopus = Library /\ disk = FoundFiles

CheckpointCall ==
    \/ \E eid \in SeedEids : AddDocument(eid, "default")
    \/ /\ ncalls = 0 /\ nops = 0
       /\ \E eidlist \in EidLists :
             AddDocuments(eidlist, PyInt(1), "default")
    \/ \E key \in SaveKeys, io \in SaveOutcomes : SaveCheckpoint(key, io)
    \/ \E key \in LoadKeys : LoadCheckpoint(key)
    \/ NewSession

CheckpointStep ==
    \/ AddDocumentsLoop
    \/ PullAbstractRepeat
    \/ PullAbstractFetch
    \/ PullAbstractFail
    \/ PullReferences
    \/ PullAbstractReturn

CheckpointNext == CheckpointCall \/ CheckpointStep

CheckpointSpec == CheckpointInit /\ [][CheckpointNext]_vars

(***************************************************************************)
(* A session that is queried: batches are added, with the flag 'initial'   *)
(* or without, and quotas() and distance_from_initial_sample are called.   *)
(* The remote also knows d, which cites e alone: a part of the graph that  *)
(* no reference joins to the rest.                                         *)
(***************************************************************************)
QueryLibrary ==
    [Library EXCEPT !.abstracts =
        (eid_from_id("d") :> Abstract("d", "2010", Some(<<Ref("e")>>), None))
           @@ @]

QueryLists == {<<eid_from_id("a"), eid_from_id("b")>>, <<eid_from_id("d")>>}
QueryNodes == {eid_from_id("a"), eid_from_id("r"), eid_from_id("d")}

QueryInit == Fresh /\ scopus = QueryLibrary /\ disk = NoFiles

QueryCall ==
    \/ \E eidlist \in QueryLists, fl \in FlagArgs :
          AddDocuments(eidlist, PyFalse, fl)
    \/ Quotas
    \/ \E node_id \in QueryNodes : Distance(node_id)

QueryStep ==
    \/ AddDocumentsLoop
    \/ PullAbstractRepeat
    \/ PullAbstractFetch
    \/ PullAbstractFail
    \/ PullReferences
    \/ PullAbstractReturn

QueryNext == QueryCall \/ QueryStep

QuerySpec == QueryInit /\ [][QueryNext]_vars

(***************************************************************************)
(* A session whose caller passes the id of a document to add_document and  *)
(* add_documents sometimes as the eid and sometimes as the id without the  *)
(* prefix.  The remote has no abstract under an id without the prefix.     *)
(***************************************************************************)
GivenIds == {"a", eid_from_id("a")}
GivenLists == {<<"a", eid_from_id("b")>>,
               <<eid_from_id("a"), eid_from_id("b"), eid_from_id("c")>>}

SurfaceInit == Fresh /\ scopus = Library /\ disk = NoFiles

SurfaceCall ==
    \/ \E id \in GivenIds, fl \in FlagArgs : AddDocument(id, fl)
    \/ \E idlist \in GivenLists, td \in {PyFalse, PyInt(1)}, fl \in FlagArgs :
          AddDocuments(idlist, td, fl)

SurfaceStep ==
    \/ AddDocumentsLoop
    \/ PullAbstractRepeat
    \/ PullAbstractFetch
    \/ PullAbstractFail
    \/ PullReferences
    \/ PullAbstractReturn

SurfaceNext == SurfaceCall \/ SurfaceStep

SurfaceSpec == SurfaceInit /\ [][SurfaceNext]_vars

(***************************************************************************)
(* Vocabulary of the properties.                                           *)
(***************************************************************************)
RecordsOf(docs, eid) == {k \in 1..Len(docs) : docs[k].eid = eid}
HasRecord(eid) == RecordsOf(documents, eid) # {}
InFails(eid) == \E k \in 1..Len(fails) : fails[k] = eid

\* The attribute bag of node n: the content of the dict its data refers to.
NodeBag(g, heap, n) ==
    IF n \in DOMAIN g.node /\ "attr" \in DOMAIN g.node[n]
    THEN heap[g.node[n].attr]
    ELSE EmptyDict

\* The references of the abstract a frame has in hand, as eids.
ReferenceEids(f) ==
    IF f.abstract = None \/ The(f.abstract).references = None THEN {}
    ELSE {eid_from_id(The(The(f.abstract).references)[k].id) :
             k \in 1..Len(The(The(f.abstract).references))}

\* The running pull_abstract is about to ask the remote, and the remote fails.
FetchRaises ==
    /\ Running("pull_abstract") /\ Top.pc = "start"
    /\ Len(remote_log') = Len(remote_log) + 1
    /\ ~remote_log'[Len(remote_log')].ok

\* The innermost frame returns to its caller in this step (no exception
\* leaves it).
TopReturns == Len(stack') = Len(stack) - 1 /\ outcome' # "raised"

(***************************************************************************)
(* C1.  However often an eid is asked for, at top level or by recursion,   *)
(* self.documents holds at most one abstract with that eid.                *)
(***************************************************************************)
C1_OneRecordPerEid ==
    \A i, j \in 1..Len(documents) :
        documents[i].eid = documents[j].eid => i = j

\* A pulled eid reached again through recursion, in the second call.
C1_Witness ==
    \E k \in 1..Len(stack) :
        /\ stack[k].fn = "pull_abstract" /\ stack[k].pc = "refs"
        /\ ~stack[k].intry /\ stack[k].depth >= 1
        /\ Cardinality(RecordsOf(documents, stack[k].eid)) = 1

(***************************************************************************)
(* C2.  While the references of a document are handled at depth d, the     *)
(* reference is pulled recursively (a pull_abstract frame for it at depth  *)
(* d+1 is entered) exactly when its in-degree, counted after the edge      *)
(* document -> reference has been added, is at least 3 and d is below the  *)
(* session's target depth.                                                 *)
(***************************************************************************)
C2_PopularityGate ==
    [][ (Running("pull_abstract") /\ Top.pc = "refs" /\ HasReference(Top)) =>
        LET r == eid_from_id(The(The(Top.abstract).references)[Top.i].id)
            entered == /\ Len(stack') = Len(stack) + 1
                       /\ stack'[Len(stack')].fn = "pull_abstract"
                       /\ stack'[Len(stack')].eid = r
                       /\ stack'[Len(stack')].depth = Top.depth + 1
                       /\ stack'[Len(stack')].pc = "start"
        IN /\ <<The(Top.abstract).eid, r>> \in citation_graph'.edge
           /\ entered <=> /\ in_degree(citation_graph', r) >= 3
                          /\ IsNumber(target_depth)
                          /\ Top.depth < target_depth.v
           /\ ~entered => Len(stack') <= Len(stack) ]_vars

\* A reference pulled at depth 1 beside one that was not pulled.
C2_Witness ==
    /\ \E k \in 1..Len(stack) :
          /\ stack[k].fn = "pull_abstract" /\ stack[k].depth = 1
          /\ in_degree(citation_graph, stack[k].eid) >= 3
    /\ \E n \in DOMAIN citation_graph.node :
          /\ in_degree(citation_graph, n) \in 1..2
          /\ ~HasRecord(n) /\ ~InFails(n)

(***************************************************************************)
(* C3.  When pull_abstract returns for a document whose abstract it had in *)
(* hand (pulled or found in self.documents), the citation graph holds the  *)
(* edge document -> r for every reference r of that abstract.              *)
(***************************************************************************)
C3_EveryReferenceEdge ==
    [][ (Running("pull_abstract") /\ Top.pc = "refs" /\ TopReturns) =>
        \A r \in ReferenceEids(Top) :
            <<The(Top.abstract).eid, r>> \in citation_graph'.edge ]_vars

(***************************************************************************)
(* C4.  When the remote retrieval of eid x fails, x is appended to         *)
(* self.fails and nothing else of the session changes: no document, no     *)
(* node, no attribute, no edge, and pull_abstract returns without handling *)
(* references.                                                             *)
(***************************************************************************)
C4_FailedPullLeavesNoTrace ==
    [][ FetchRaises =>
        /\ fails' = Append(fails, Top.eid)
        /\ documents' = documents
        /\ citation_graph' = citation_graph
        /\ authorship_graph' = authorship_graph
        /\ dicts' = dicts
        /\ stack' = Pop(stack) ]_vars

\* A failed eid that is a node of the graph only as somebody's reference.
C4_Witness ==
    \E k \in 1..Len(fails) :
        /\ ~HasRecord(fails[k])
        /\ fails[k] \in DOMAIN citation_graph.node
        /\ citation_graph.node[fails[k]] = EmptyDict
        /\ in_degree(citation_graph, fails[k]) >= 3

(***************************************************************************)
(* C5.  A failing retrieval returns control to the caller of pull_abstract *)
(* (the loop of add_documents, or the loop over the parent's references),  *)
(* and whenever add_documents is between two ids or returns, every id it   *)
(* has passed has an abstract in self.documents or is in self.fails.       *)
(***************************************************************************)
BatchProgress ==
    Running("add_documents") =>
        \A k \in 1..(Top.i - 1) :
            HasRecord(Top.eidlist[k]) \/ InFails(Top.eidlist[k])

C5_FailureDoesNotAbort ==
    [][ /\ FetchRaises => stack' = Pop(stack) /\ outcome' # "raised"
        /\ BatchProgress' ]_vars

\* A batch at its end whose first id failed and whose last id was pulled.
C5_Witness ==
    /\ Running("add_documents") /\ Top.i > Len(Top.eidlist)
    /\ Len(Top.eidlist) >= 2
    /\ InFails(Top.eidlist[1]) /\ ~HasRecord(Top.eidlist[1])
    /\ HasRecord(Top.eidlist[Len(Top.eidlist)])

(***************************************************************************)
(* C6.  While pull_abstract works on an eid it found in self.documents, no *)
(* remote retrieval is made for that eid, no abstract is added for it, the *)
(* attribute bag of its node stays as it is, and the frame leaves only     *)
(* after every reference of the abstract has been handled.                 *)
(***************************************************************************)
C6_RepeatOnlyRechecksReferences ==
    [][ \A k \in 1..Len(stack) :
          (stack[k].fn = "pull_abstract" /\ stack[k].pc = "refs"
              /\ ~stack[k].intry) =>
          /\ \A n \in (Len(remote_log) + 1)..Len(remote_log') :
                remote_log'[n].id # stack[k].eid
          /\ RecordsOf(documents', stack[k].eid)
                = RecordsOf(documents, stack[k].eid)
          /\ NodeBag(citation_graph', dicts', stack[k].eid)
                = NodeBag(citation_graph, dicts, stack[k].eid)
          /\ Len(stack') < k => (k = Len(stack) /\ ~HasReference(stack[k]))
      ]_vars

(***************************************************************************)
(* C7.  The node of every pulled document carries the year of its own      *)
(* abstract, and once a document is pulled the attribute bag of its node   *)
(* never changes.                                                          *)
(***************************************************************************)
C7_NodeKeepsOwnAttributes ==
    [][ \A k \in 1..Len(documents') :
          LET d == documents'[k]
              bag == NodeBag(citation_graph', dicts', d.eid)
          IN /\ "year" \in DOMAIN bag /\ bag.year = d.coverDate[1]
             /\ k <= Len(documents) =>
                   bag = NodeBag(citation_graph, dicts, d.eid) ]_vars

(***************************************************************************)
(* C8.  self.target_depth changes only when add_documents is entered with  *)
(* a truthy target_depth, and then to that value; entered with False or 0  *)
(* it keeps the value it had, as does every other step.                    *)
(***************************************************************************)
C8_StickyTargetDepth ==
    [][ IF stack = <<>> /\ \E k \in 1..Len(stack') :
                              stack'[k].fn = "add_documents"
        THEN LET f == stack'[CHOOSE k \in 1..Len(stack') :
                                stack'[k].fn = "add_documents"]
             IN target_depth' =
                   IF Truthy(f.td, dicts') THEN f.td ELSE target_depth
        ELSE target_depth' = target_depth ]_vars

\* The second call passes no target depth, or 0, and depth 2 is in force.
C8_Witness ==
    /\ ncalls = 2 /\ Running("add_documents")
    /\ Top.td \in {PyFalse, PyInt(0)}
    /\ target_depth = PyInt(2)

(***************************************************************************)
(* C9.  Seed scenario: B1, B2, B3, all citing r1..r4, are in the graph;    *)
(* then A1, citing r1..r4, is added with target depth 1.  When that call   *)
(* has returned, the four edges A1 -> r1..r4 exist, and if no retrieval    *)
(* failed each of r1..r4 has been retrieved from the remote exactly once   *)
(* and has exactly one abstract in self.documents.                         *)
(***************************************************************************)
SeedRefs == {eid_from_id(x) : x \in {"r1", "r2", "r3", "r4"}}
Retrievals(eid) == {n \in 1..Len(remote_log) : remote_log[n].id = eid}
NoRetrievalFailed == \A n \in 1..Len(remote_log) : remote_log[n].ok

C9_SeedScenario ==
    (ncalls = 2 /\ stack = <<>>) =>
        /\ HasRecord(eid_from_id("A1")) =>
              {e \in citation_graph.edge : e[1] = eid_from_id("A1")}
                 = {<<eid_from_id("A1"), r>> : r \in SeedRefs}
        /\ \A r \in SeedRefs :
              /\ Cardinality(RecordsOf(documents, r)) <= 1
              /\ Cardinality({n \in Retrievals(r) : remote_log[n].ok}) <= 1
        /\ NoRetrievalFailed =>
              /\ Cardinality(RecordsOf(documents, eid_from_id("A1"))) = 1
              /\ \A r \in SeedRefs :
                    /\ Cardinality(Retrievals(r)) = 1
                    /\ Cardinality(RecordsOf(documents, r)) = 1

\* The scenario run through without failure, r1..r4 pulled after A1, from
\* the expansion of A1, when each already had three citing documents.
C9_Witness ==
    /\ ncalls = 2 /\ stack = <<>> /\ NoRetrievalFailed
    /\ target_depth = PyInt(1)
    /\ Len(remote_log) = 8
    /\ remote_log[4].id = eid_from_id("A1")
    /\ {remote_log[n].id : n \in 5..8} = SeedRefs
    /\ \A r \in SeedRefs : in_degree(citation_graph, r) >= 4

(***************************************************************************)
(* C10.  Every call of pull_abstract on the stack has a depth equal to the *)
(* number of pull_abstract calls below it, and at most the target depth,   *)
(* so the stack is bounded; a running call always has a next step, and     *)
(* each step strictly lowers the rank of the stack in the lexicographic    *)
(* order of the work left per frame: no call runs forever.                 *)
(***************************************************************************)
DepthBounded ==
    \A k \in 1..Len(stack) :
        stack[k].fn = "pull_abstract" =>
            /\ stack[k].depth =
                  Cardinality({j \in 1..(k - 1) : stack[j].fn = "pull_abstract"})
            /\ IF IsNumber(target_depth)
               THEN stack[k].depth <= target_depth.v
               ELSE stack[k].depth = 0

\* The longest reference list the remote can answer with.
LongestReferences ==
    LET n(e) == IF scopus.abstracts[e].references = None THEN 0
                ELSE Len(The(scopus.abstracts[e].references))
    IN CHOOSE m \in {n(e) : e \in DOMAIN scopus.abstracts} :
          \A e \in DOMAIN scopus.abstracts : n(e) <= m

\* The steps a frame has left before it returns, calls it makes not counted.
WorkLeft(f) ==
    IF f.fn = "add_documents" THEN Len(f.eidlist) + 2 - f.i
    ELSE IF f.fn = "pull_author" THEN 1
    ELSE IF f.pc = "start" THEN LongestReferences + 3
    ELSE IF The(f.abstract).references = None THEN 1
    ELSE Len(The(The(f.abstract).references)) + 2 - f.i

\* s is below t: at the first frame where they differ s has ended or has
\* less work left.
RankBelow(s, t) ==
    \E k \in 1..Len(t) :
        /\ \A j \in 1..(k - 1) :
              j <= Len(s) /\ WorkLeft(s[j]) = WorkLeft(t[j])
        /\ k > Len(s) \/ WorkLeft(s[k]) < WorkLeft(t[k])

C10_RecursionBoundedAndEnds ==
    /\ []DepthBounded
    /\ [](\A k \in 1..Len(stack) : WorkLeft(stack[k]) >= 1)
    /\ [](stack # <<>> => ENABLED Step)
    /\ [][stack # <<>> => RankBelow(stack', stack)]_vars

\* The same, as a liveness property of LiveSpec: under weak fairness of the
\* steps of the running call, every top-level call ends.
EveryCallEnds == (stack # <<>>) ~> (stack = <<>>)

\* The self-citing document s, pulled at depth 2 in a cycle r -> s -> r.
C10_Witness ==
    \E k \in 1..Len(stack) :
        /\ stack[k].fn = "pull_abstract" /\ stack[k].depth = 2
        /\ stack[k].eid = eid_from_id("s") /\ stack[k].pc = "refs"
        /\ <<eid_from_id("s"), eid_from_id("s")>> \in citation_graph.edge

(***************************************************************************)
(* Vocabulary of the checkpoint and session properties.                    *)
(***************************************************************************)
\* This step is a call of fn, counted by nops.
OpStep(fn) == nops' = nops + 1 /\ last_call'.fn = fn

\* load_checkpoint(key) cannot restore a checkpoint: no key, no such file,
\* a file that cannot be read, or a dict that lacks one of the structures.
LoadFails(key) ==
    \/ key = None
    \/ Filename(The(key)) \notin DOMAIN disk
    \/ disk[Filename(The(key))].kind # "pickle"
    \/ \E k \in 1..Len(LoadOrder) :
          LoadOrder[k] \notin DOMAIN disk[Filename(The(key))].content

\* The records, the authorship graph, and the node set, edge set and
\* attribute bags of the citation graph.
View(docs, ag, cg, heap) ==
    [documents |-> docs, authorship |-> ag, nodes |-> DOMAIN cg.node,
     edges |-> cg.edge,
     bags |-> [n \in DOMAIN cg.node |-> NodeBag(cg, heap, n)]]

FileView(file) ==
    View(file.content["documents"], file.content["authorship"],
         file.content["citations"], file.objects)

(***************************************************************************)
(* C11.  A load_checkpoint(key) that cannot restore the checkpoint leaves  *)
(* self.documents and both graphs as they were, all three, and returns     *)
(* without raising.                                                        *)
(***************************************************************************)
C11_FailedLoadChangesNothing ==
    [][ (OpStep("load_checkpoint") /\ LoadFails(last_call'.arg)) =>
          /\ documents' = documents
          /\ authorship_graph' = authorship_graph
          /\ citation_graph' = citation_graph
          /\ outcome' # "raised" ]_vars

(***************************************************************************)
(* C12.  A successful save_checkpoint(key) writes a file that holds the    *)
(* records, node sets, edge sets and attribute bags of that moment; only   *)
(* save_checkpoint changes a file; and a load_checkpoint(key) of a file    *)
(* with the three structures, in the same session or in one constructed    *)
(* later, leaves the session with exactly what the file holds, whatever    *)
(* was pulled in between.                                                  *)
(***************************************************************************)
C12_CheckpointRoundTrip ==
    [][ /\ (OpStep("save_checkpoint") /\ last_call'.result = "ok") =>
            LET filename == Filename(KeyOrTimestamp(last_call'.arg))
            IN /\ filename \in DOMAIN disk'
               /\ disk'[filename].kind = "pickle"
               /\ FileView(disk'[filename])
                     = View(documents, authorship_graph, citation_graph, dicts)
        /\ ~OpStep("save_checkpoint") => disk' = disk
        /\ (OpStep("load_checkpoint") /\ ~LoadFails(last_call'.arg)) =>
            View(documents', authorship_graph', citation_graph', dicts')
               = FileView(disk[Filename(The(last_call'.arg))]) ]_vars

\* a was pulled and saved, r was pulled after the save and rewrote the year
\* of the shared flags dict; the load brought back a alone, with its year.
C12_Witness ==
    /\ last_call.fn = "load_checkpoint" /\ last_call.result = "loaded"
    /\ Len(documents) = 1 /\ documents[1].eid = eid_from_id("a")
    /\ Len(remote_log) = 2 /\ NoRetrievalFailed
    /\ NodeBag(citation_graph, dicts, eid_from_id("a")) = [year |-> "2001"]
    /\ dicts[FlagsOfAddDocument] = [year |-> "1990"]
    /\ DOMAIN citation_graph.node
          = {eid_from_id("a"), eid_from_id("r"), eid_from_id("s")}

(***************************************************************************)
(* C13.  When AuthorRetrieval raises in pull_author, the auid is appended  *)
(* to self.fails and pull_author returns without raising.                  *)
(***************************************************************************)
AuthorFetchRaises ==
    /\ stack = <<>>
    /\ Len(remote_log') = Len(remote_log) + 1
    /\ remote_log'[Len(remote_log')].kind = "author"
    /\ ~remote_log'[Len(remote_log')].ok

C13_AuthorFailureRecorded ==
    [][ AuthorFetchRaises =>
          /\ fails' = Append(fails, remote_log'[Len(remote_log')].id)
          /\ outcome' # "raised" ]_vars

(***************************************************************************)
(* C14.  A session that has just been constructed has no document, no      *)
(* failed eid and two empty graphs, whatever the sessions constructed      *)
(* before it in the process have pulled.                                   *)
(***************************************************************************)
C14_NewSessionStartsEmpty ==
    [][ OpStep("__init__") =>
          /\ documents' = <<>>
          /\ fails' = <<>>
          /\ citation_graph' = EmptyGraph
          /\ authorship_graph' = EmptyGraph ]_vars

(***************************************************************************)
(* C16.  Every document node (bipartite = 0) of the authorship graph is a  *)
(* node of the citation graph, and every edge of the authorship graph goes *)
(* from a document node to an author node (bipartite = 1) that is one of   *)
(* the authors of the abstract self.documents holds for that document.     *)
(***************************************************************************)
Side(g, n) ==
    IF n \in DOMAIN g.node /\ "bipartite" \in DOMAIN g.node[n]
    THEN Some(g.node[n].bipartite) ELSE None

IsAuthorOf(auid, eid) ==
    \E k \in RecordsOf(documents, eid) :
        /\ documents[k].authors # None
        /\ \E j \in 1..Len(The(documents[k].authors)) :
              The(documents[k].authors)[j].auid = auid

C16_AuthorshipWithinCitations ==
    /\ \A n \in DOMAIN authorship_graph.node :
          Side(authorship_graph, n) = Some(0) =>
              n \in DOMAIN citation_graph.node
    /\ \A e \in authorship_graph.edge :
          /\ Side(authorship_graph, e[1]) = Some(0)
          /\ Side(authorship_graph, e[2]) = Some(1)
          /\ IsAuthorOf(e[2], e[1])

(***************************************************************************)
(* C17.  A step in which an abstract is retrieved sets self.last_quota and *)
(* self.reset_time to what that answer reports; every other step of a      *)
(* session (a failed retrieval, an eid found in self.documents, a          *)
(* reference handled, save_checkpoint, load_checkpoint) leaves both as     *)
(* they are; a new session starts with both empty.  So both always hold    *)
(* the values of the session's last retrieved abstract.                    *)
(***************************************************************************)
AbstractRetrieved ==
    /\ Len(remote_log') = Len(remote_log) + 1
    /\ remote_log'[Len(remote_log')].kind = "abstract"
    /\ remote_log'[Len(remote_log')].ok

C17_QuotaOfLastRetrieval ==
    [][ IF AbstractRetrieved
        THEN /\ last_quota' = remote_log'[Len(remote_log')].remaining
             /\ reset_time' = remote_log'[Len(remote_log')].reset
        ELSE IF OpStep("__init__")
        THEN last_quota' = "" /\ reset_time' = ""
        ELSE last_quota' = last_quota /\ reset_time' = reset_time ]_vars

\* a was retrieved, the retrieval of r failed, a checkpoint was saved and
\* loaded: the quota is still the one reported with a.
C17_Witness ==
    /\ Len(remote_log) = 2
    /\ remote_log[1].ok /\ ~remote_log[2].ok
    /\ last_call.fn = "load_checkpoint" /\ last_call.result = "loaded"
    /\ last_quota = remote_log[1].remaining /\ last_quota = QuotaAfter(1)
    /\ reset_time = ResetTime

(***************************************************************************)
(* C19.  When mkdir, open or pickle.dump raises in save_checkpoint, the    *)
(* call returns without raising and leaves self.documents and both graphs  *)
(* as they were.                                                           *)
(***************************************************************************)
C19_SaveFailureIsCaught ==
    [][ (OpStep("save_checkpoint") /\ last_call'.result # "ok") =>
          /\ outcome' # "raised"
          /\ documents' = documents
          /\ citation_graph' = citation_graph
          /\ authorship_graph' = authorship_graph ]_vars

(***************************************************************************)
(* C15.  distance_from_initial_sample(n) returns the least shortest-path   *)
(* length, in the undirected citation graph, between n and a node whose    *)
(* attribute bag has initial = True: 0 when n is such a node, and a number *)
(* whenever a path joins n to one of them, whatever else the graph holds.  *)
(***************************************************************************)
SeedFlagged ==
    {n \in DOMAIN citation_graph.node :
        LET bag == NodeBag(citation_graph, dicts, n)
        IN "initial" \in DOMAIN bag /\ bag.initial = "True"}

SeedDistances(n) ==
    {The(l) : l \in {shortest_path_length(citation_graph, s, n) :
                        s \in SeedFlagged} \ {None}}

C15_DistanceFromSeed ==
    [][ OpStep("distance_from_initial_sample") =>
          LET n == last_call'.arg
          IN /\ n \in SeedFlagged => last_call'.result = Some(0)
             /\ SeedDistances(n) # {} =>
                   last_call'.result = Some(Least(SeedDistances(n))) ]_vars

(***************************************************************************)
(* C18.  quotas() returns without raising in every state, and for a field  *)
(* no retrieval has set yet it prints the text that says so ("Pulls        *)
(* Remaining Unknown", "Reset Time Unknown").                              *)
(***************************************************************************)
C18_QuotasNeverFails ==
    [][ OpStep("quotas") =>
          /\ outcome' # "raised"
          /\ last_call'.result # None
          /\ last_quota = "" =>
                The(last_call'.result).quota_string = "Pulls Remaining Unknown"
          /\ reset_time = "" =>
                The(last_call'.result).reset_string = "Reset Time Unknown"
      ]_vars

(***************************************************************************)
(* C20.  Every id the session works with is an eid, the prefix followed by *)
(* an id that has none: the keys of the citation graph's nodes, the id     *)
(* every call of pull_abstract looks up in self.documents, and the id      *)
(* every retrieval asks the remote for; also when the caller gave the id   *)
(* without the prefix.                                                     *)
(***************************************************************************)
ShortIds == {"a", "b", "c", "r", "s"}
IsCanonical(x) == \E id \in ShortIds : x = eid_from_id(id)

C20_CanonicalIdsEverywhere ==
    /\ \A n \in DOMAIN citation_graph.node : IsCanonical(n)
    /\ \A k \in 1..Len(stack) :
          stack[k].fn = "pull_abstract" => IsCanonical(stack[k].eid)
    /\ \A n \in 1..Len(remote_log) :
          remote_log[n].kind = "abstract" => IsCanonical(remote_log[n].id)

(***************************************************************************)
(* C21.  When pull_abstract has pulled x with the flags F, the node x has  *)
(* the keys of F and year as its attributes, so that                       *)
(* get_nodes_with_attribute(citation_graph, k, v) holds x for every pair   *)
(* (k, v) of F and for year with the year of x's abstract, and holds only  *)
(* nodes that carry the pair.                                              *)
(***************************************************************************)
C21_PulledNodeFoundByAttribute ==
    [][ AbstractRetrieved =>
          LET abstract == documents'[Len(documents')]
              F == dicts[Top.flags]
              found(k, v) == get_nodes_with_attribute(citation_graph', k, v)
          IN /\ abstract.eid \in found("year", abstract.coverDate[1])
             /\ \A k \in DOMAIN F \ {"year"} : abstract.eid \in found(k, F[k])
             /\ \A n \in found("year", abstract.coverDate[1]) :
                   NodeBag(citation_graph', dicts', n).year
                      = abstract.coverDate[1] ]_vars

(***************************************************************************)
(* C22.  self.target_depth is an int in every state; a call of pull_author *)
(* leaves it as it is, whatever flags it is given, and calls add_documents *)
(* with those flags as the flags of the documents.                         *)
(***************************************************************************)
AuthorRetrieved ==
    /\ stack = <<>>
    /\ Len(remote_log') = Len(remote_log) + 1
    /\ remote_log'[Len(remote_log')].kind = "author"
    /\ remote_log'[Len(remote_log')].ok

C22_PullAuthorKeepsTargetDepth ==
    /\ [](target_depth.t = "int")
    /\ [][ AuthorRetrieved =>
             /\ target_depth' = target_depth
             /\ stack'[2].fn = "add_documents"
             /\ stack'[2].flags = stack'[1].flags ]_vars

(***************************************************************************)
(* C23.  An eid is appended to self.fails only by a call of pull_abstract  *)
(* that has appended no abstract to self.documents: the call that catches  *)
(* the exception is still at its retrieval, whatever raised.               *)
(***************************************************************************)
C23_FailedMeansNoRecordAdded ==
    [][ Len(fails') = Len(fails) + 1 =>
          LET f == stack[Len(stack') + 1]
          IN /\ f.fn = "pull_abstract"
             /\ f.eid = fails'[Len(fails')]
             /\ f.pc = "start"
             /\ documents' = documents ]_vars

(***************************************************************************)
(* C24.  Every edge a -> b of the citation graph has an abstract of a in   *)
(* self.documents, with b among its references, so the in-degree of a node *)
(* is the number of pulled documents that cite it; and handling the        *)
(* references of a document found in self.documents adds no edge.          *)
(***************************************************************************)
CitesInRecord(a, b) ==
    \E k \in RecordsOf(documents, a) :
        /\ documents[k].references # None
        /\ \E j \in 1..Len(The(documents[k].references)) :
              eid_from_id(The(documents[k].references)[j].id) = b

EdgesFromRecords ==
    /\ \A e \in citation_graph.edge : CitesInRecord(e[1], e[2])
    /\ \A n \in DOMAIN citation_graph.node :
          in_degree(citation_graph, n)
             = Cardinality({d \in {documents[k].eid : k \in 1..Len(documents)} :
                               CitesInRecord(d, n)
                               /\ <<d, n>> \in citation_graph.edge})

C24_EdgesOnlyFromFirstExpansion ==
    /\ []EdgesFromRecords
    /\ [][ (Running("pull_abstract") /\ Top.pc = "refs" /\ ~Top.intry) =>
             citation_graph'.edge = citation_graph.edge ]_vars

====
